---- MODULE Spec2Model ----
(***************************************************************************)
(* Flashcard generation pipeline of src/utils/groq_client.py.              *)
(*                                                                         *)
(* A text is a sequence of symbols.  A symbol stands for one character     *)
(* ("{", "\"", " ", ...) or for one run of characters that the code never  *)
(* looks inside (FENCE, the three-backtick marker, "json", "question",     *)
(* "Q1", ...).                                                             *)
(* The string operations of the code (strip, find, rfind, slicing, split,  *)
(* join, startswith) and json.loads are modelled on these sequences.       *)
(***************************************************************************)
EXTENDS Integers, Sequences, FiniteSets, TLC

(***************************************************************************)
(* Bounds of the model.                                                    *)
(***************************************************************************)
MaxCards == 2      \* longest candidate list the capability returns in an object
MaxBare == 1       \* longest candidate list the capability returns as a bare array
MaxCount == 2      \* largest num_flashcards a caller asks for

Procs == {"p1", "p2"}     \* the callers that share the global client
Callers == {"p1"}         \* the callers of the specification Spec: one call at a time

(***************************************************************************)
(* Symbols.                                                                *)
(***************************************************************************)
LBRACE == "{"
RBRACE == "}"
LBRACK == "["
RBRACK == "]"
COMMA == ","
COLON == ":"
DQ == "\""
SQ == "'"
SP == " "
NL == "\n"
FENCE == "FENCE"      \* the three-backtick fence marker
Whitespace == {SP, NL}

Fence == <<FENCE>>
JsonFence == <<FENCE, "json">>

(***************************************************************************)
(* Python string operations, positions 0-based as in the source.           *)
(***************************************************************************)
IsAt(s, sub, i) ==
    /\ i >= 0
    /\ i + Len(sub) <= Len(s)
    /\ \A k \in 1..Len(sub) : s[i + k] = sub[k]

\* s.find(sub, start): lowest position >= start where sub occurs, else -1
find(s, sub, start) ==
    LET last == Len(s) - Len(sub)
    IN  IF \E i \in start..last : IsAt(s, sub, i)
        THEN CHOOSE i \in start..last :
                IsAt(s, sub, i) /\ \A j \in start..(i - 1) : ~IsAt(s, sub, j)
        ELSE -1

\* s.rfind(sub): highest position where sub occurs, else -1
rfind(s, sub) ==
    LET last == Len(s) - Len(sub)
    IN  IF \E i \in 0..last : IsAt(s, sub, i)
        THEN CHOOSE i \in 0..last :
                IsAt(s, sub, i) /\ \A j \in (i + 1)..last : ~IsAt(s, sub, j)
        ELSE -1

\* sub in s
contains(s, sub) == find(s, sub, 0) # -1

\* s[a:b] for 0 <= a and 0 <= b
slice(s, a, b) ==
    LET hi == IF b < Len(s) THEN b ELSE Len(s)
    IN  IF a + 1 > hi THEN <<>> ELSE SubSeq(s, a + 1, hi)

\* s.strip()
strip(s) ==
    LET keep(i) == s[i] \notin Whitespace
    IN  IF \E i \in 1..Len(s) : keep(i)
        THEN LET first == CHOOSE i \in 1..Len(s) : keep(i) /\ \A j \in 1..(i - 1) : ~keep(j)
                 last == CHOOSE i \in 1..Len(s) : keep(i) /\ \A j \in (i + 1)..Len(s) : ~keep(j)
             IN  SubSeq(s, first, last)
        ELSE <<>>

\* s.startswith(c) for a one-symbol c
startswith(s, c) == Len(s) >= 1 /\ s[1] = c

\* s.split('\n'): always at least one line
RECURSIVE split(_)
split(s) ==
    LET i == find(s, <<NL>>, 0)
    IN  IF i = -1 THEN <<s>>
        ELSE <<slice(s, 0, i)>> \o split(slice(s, i + 1, Len(s)))

\* '\n'.join(lines)
RECURSIVE join(_)
join(lines) ==
    IF lines = <<>> THEN <<>>
    ELSE IF Len(lines) = 1 THEN lines[1]
    ELSE lines[1] \o <<NL>> \o join(Tail(lines))

(***************************************************************************)
(* json.loads.  A parsed value is a pair <<tag, content>>:                 *)
(*   <<"str", symbols>>, <<"num", symbols>>, <<"null", <<>>>>,             *)
(*   <<"true", <<>>>>, <<"arr", values>>, <<"obj", members>>               *)
(* where members is a sequence of <<key symbols, value>> pairs in          *)
(* insertion order, no key twice (a repeated key keeps its first place and *)
(* takes the last value, as a Python dict does).                           *)
(***************************************************************************)
Digits == {"1", "2"}
Tag(v) == v[1]
Content(v) == v[2]

RECURSIVE SkipWS(_, _)
SkipWS(s, i) ==
    IF i <= Len(s) /\ s[i] \in Whitespace THEN SkipWS(s, i + 1) ELSE i

ParseFail == [ok |-> FALSE, val |-> <<"null", <<>>>>, pos |-> 0]
ParseOk(v, p) == [ok |-> TRUE, val |-> v, pos |-> p]

\* a string literal opened by the quote s[i] and closed by the quote at 0-based
\* position close; a raw newline inside is an invalid control character
StringBody(s, body, close) ==
    IF contains(body, <<NL>>) THEN ParseFail ELSE ParseOk(<<"str", body>>, close + 2)
StringUpTo(s, i, close) ==
    IF close = -1 THEN ParseFail ELSE StringBody(s, slice(s, i, close), close)
ScanString(s, i) == StringUpTo(s, i, find(s, <<DQ>>, i))

\* dict[key] = value
RECURSIVE DictSet(_, _, _)
DictSet(members, key, value) ==
    IF members = <<>> THEN << <<key, value>> >>
    ELSE IF members[1][1] = key THEN << <<key, value>> >> \o Tail(members)
    ELSE <<members[1]>> \o DictSet(Tail(members), key, value)

RECURSIVE ParseValue(_, _), ParseElems(_, _, _), ElemParsed(_, _, _), ElemNext(_, _, _),
          ParseMembers(_, _, _), KeyParsed(_, _, _), KeyColon(_, _, _, _),
          MemberParsed(_, _, _, _), MemberNext(_, _, _), ValueAt(_, _),
          ArrayAt(_, _), ObjectAt(_, _)

\* elements of an array, the next element starting at s[i]
ParseElems(s, i, acc) == ElemParsed(s, ParseValue(s, i), acc)
ElemParsed(s, r, acc) ==
    IF ~r.ok THEN ParseFail ELSE ElemNext(s, SkipWS(s, r.pos), Append(acc, r.val))
ElemNext(s, j, acc) ==
    IF j > Len(s) THEN ParseFail
    ELSE IF s[j] = COMMA THEN ParseElems(s, SkipWS(s, j + 1), acc)
    ELSE IF s[j] = RBRACK THEN ParseOk(<<"arr", acc>>, j + 1)
    ELSE ParseFail

\* members of an object, s[i] expected to be the quote opening the next key
ParseMembers(s, i, acc) ==
    IF i > Len(s) \/ s[i] # DQ THEN ParseFail ELSE KeyParsed(s, ScanString(s, i), acc)
KeyParsed(s, k, acc) ==
    IF ~k.ok THEN ParseFail ELSE KeyColon(s, Content(k.val), SkipWS(s, k.pos), acc)
KeyColon(s, key, c, acc) ==
    IF c > Len(s) \/ s[c] # COLON THEN ParseFail
    ELSE MemberParsed(s, key, ParseValue(s, c + 1), acc)
MemberParsed(s, key, r, acc) ==
    IF ~r.ok THEN ParseFail
    ELSE MemberNext(s, SkipWS(s, r.pos), DictSet(acc, key, r.val))
MemberNext(s, j, acc) ==
    IF j > Len(s) THEN ParseFail
    ELSE IF s[j] = COMMA THEN ParseMembers(s, SkipWS(s, j + 1), acc)
    ELSE IF s[j] = RBRACE THEN ParseOk(<<"obj", acc>>, j + 1)
    ELSE ParseFail

\* s[n] follows the opening bracket or brace
ArrayAt(s, n) ==
    IF n <= Len(s) /\ s[n] = RBRACK THEN ParseOk(<<"arr", <<>>>>, n + 1)
    ELSE ParseElems(s, n, <<>>)
ObjectAt(s, n) ==
    IF n <= Len(s) /\ s[n] = RBRACE THEN ParseOk(<<"obj", <<>>>>, n + 1)
    ELSE ParseMembers(s, n, <<>>)

ValueAt(s, j) ==
    IF j > Len(s) THEN ParseFail
    ELSE IF s[j] = DQ THEN ScanString(s, j)
    ELSE IF s[j] \in Digits THEN ParseOk(<<"num", <<s[j]>> >>, j + 1)
    ELSE IF s[j] = "null" THEN ParseOk(<<"null", <<>>>>, j + 1)
    ELSE IF s[j] = "true" THEN ParseOk(<<"true", <<>>>>, j + 1)
    ELSE IF s[j] = LBRACK THEN ArrayAt(s, SkipWS(s, j + 1))
    ELSE IF s[j] = LBRACE THEN ObjectAt(s, SkipWS(s, j + 1))
    ELSE ParseFail

ParseValue(s, i) == ValueAt(s, SkipWS(s, i))

\* json.loads(s): the single value of s, or JSONDecodeError (ok = FALSE)
WholeText(s, r) == IF r.ok /\ SkipWS(s, r.pos) > Len(s) THEN r ELSE ParseFail
json_loads(s) == WholeText(s, ParseValue(s, 1))

(***************************************************************************)
(* Python operations on parsed values used by the validation code.         *)
(***************************************************************************)
QUESTION == <<"question">>
ANSWER == <<"answer">>
FLASHCARDS == <<"flashcards">>

HasKey(members, key) == \E i \in 1..Len(members) : members[i][1] = key
DictGet(members, key) ==
    members[CHOOSE i \in 1..Len(members) : members[i][1] = key][2]

RECURSIVE JoinWith(_, _)
JoinWith(parts, sep) ==
    IF parts = <<>> THEN <<>>
    ELSE IF Len(parts) = 1 THEN parts[1]
    ELSE parts[1] \o sep \o JoinWith(Tail(parts), sep)

\* repr(v)
RECURSIVE PyRepr(_)
PyRepr(v) ==
    CASE Tag(v) = "str" -> <<SQ>> \o Content(v) \o <<SQ>>
      [] Tag(v) = "num" -> Content(v)
      [] Tag(v) = "null" -> <<"None">>
      [] Tag(v) = "true" -> <<"True">>
      [] Tag(v) = "arr" ->
            <<LBRACK>>
            \o JoinWith([i \in 1..Len(Content(v)) |-> PyRepr(Content(v)[i])], <<COMMA, SP>>)
            \o <<RBRACK>>
      [] Tag(v) = "obj" ->
            <<LBRACE>>
            \o JoinWith([i \in 1..Len(Content(v)) |->
                            <<SQ>> \o Content(v)[i][1] \o <<SQ, COLON, SP>>
                            \o PyRepr(Content(v)[i][2])], <<COMMA, SP>>)
            \o <<RBRACE>>

\* str(v)
PyStr(v) == IF Tag(v) = "str" THEN Content(v) ELSE PyRepr(v)

\* the values `for card in v` visits; iterable = FALSE is a TypeError
PyIter(v) ==
    CASE Tag(v) = "arr" -> [iterable |-> TRUE, items |-> Content(v)]
      [] Tag(v) = "obj" ->
            [iterable |-> TRUE,
             items |-> [i \in 1..Len(Content(v)) |-> <<"str", Content(v)[i][1]>>]]
      [] Tag(v) = "str" ->
            [iterable |-> TRUE,
             items |-> [i \in 1..Len(Content(v)) |-> <<"str", <<Content(v)[i]>> >>]]
      [] OTHER -> [iterable |-> FALSE, items |-> <<>>]

(***************************************************************************)
(* GroqClient._parse_flashcard_response, step by step.                     *)
(***************************************************************************)
NoExc == "none"
Done(cards) == [exc |-> NoExc, cards |-> cards]
Raise(e) == [exc |-> e, cards |-> <<>>]

\* lines 113-116: the block opened by the JSON-labeled fence
JsonBlockUpTo(t, start, end) ==
    IF end # -1 THEN strip(slice(t, start, end)) ELSE t
JsonBlock(t, start) == JsonBlockUpTo(t, start, find(t, Fence, start))

\* lines 123-126: remove any language identifier
DropLanguageLine(inner, lines) ==
    IF lines # <<>> /\ ~startswith(strip(lines[1]), LBRACE)
    THEN strip(join(Tail(lines)))
    ELSE inner
DropLanguage(inner) == DropLanguageLine(inner, split(inner))

\* lines 119-126: a generic code block
GenericBlock(t, start, end) ==
    IF end # -1 /\ end > start THEN DropLanguage(strip(slice(t, start, end))) ELSE t

\* lines 110-126: unwrap a markdown code block
StripCodeBlock(t) ==
    IF contains(t, JsonFence)
    THEN JsonBlock(t, find(t, JsonFence, 0) + Len(JsonFence))
    ELSE IF contains(t, Fence)
    THEN GenericBlock(t, find(t, Fence, 0) + Len(Fence), rfind(t, Fence))
    ELSE t

\* BraceSlice with the closing brace left out (slice end instead of end + 1)
BraceSliceExclusive(t, start, end) ==
    IF start # -1 /\ end # -1 /\ end > start THEN slice(t, start, end) ELSE t

\* lines 130-133
BraceSlice(t, start, end) ==
    IF start # -1 /\ end # -1 /\ end > start THEN slice(t, start, end + 1) ELSE t

\* lines 128-133: JSON content between curly braces
BraceContent(t) ==
    IF ~startswith(t, LBRACE)
    THEN BraceSlice(t, find(t, <<LBRACE>>, 0), rfind(t, <<RBRACE>>))
    ELSE t

\* lines 108-133: the text handed to json.loads
WorkingText(t) == BraceContent(StripCodeBlock(strip(t)))

\* line 139: 'flashcards' in parsed_response ("TypeError" when not a container)
InFlashcards(v) ==
    CASE Tag(v) = "obj" -> IF HasKey(Content(v), FLASHCARDS) THEN "yes" ELSE "no"
      [] Tag(v) = "arr" ->
            IF \E i \in 1..Len(Content(v)) :
                  Tag(Content(v)[i]) = "str" /\ Content(Content(v)[i]) = FLASHCARDS
            THEN "yes" ELSE "no"
      [] Tag(v) = "str" -> IF contains(Content(v), FLASHCARDS) THEN "yes" ELSE "no"
      [] OTHER -> "TypeError"

\* line 148: isinstance(card, dict) and 'question' in card and 'answer' in card
IsValidCard(card) ==
    /\ Tag(card) = "obj"
    /\ HasKey(Content(card), QUESTION)
    /\ HasKey(Content(card), ANSWER)

\* lines 149-152: the record appended for a valid card
MakeCard(card) ==
    [question |-> strip(PyStr(DictGet(Content(card), QUESTION))),
     answer |-> strip(PyStr(DictGet(Content(card), ANSWER)))]

\* the validation loop leaving at the first invalid candidate (break for continue)
RECURSIVE ValidateCardsStop(_, _)
ValidateCardsStop(items, validated_flashcards) ==
    IF items = <<>> THEN validated_flashcards
    ELSE IF IsValidCard(items[1])
         THEN ValidateCardsStop(Tail(items), Append(validated_flashcards, MakeCard(items[1])))
    ELSE validated_flashcards

\* lines 146-152: the validation loop
RECURSIVE ValidateCards(_, _)
ValidateCards(items, validated_flashcards) ==
    IF items = <<>> THEN validated_flashcards
    ELSE ValidateCards(Tail(items),
                       IF IsValidCard(items[1])
                       THEN Append(validated_flashcards, MakeCard(items[1]))
                       ELSE validated_flashcards)

\* lines 138-143: the candidate list, or the exception the lookup raises
Lookup(parsed_response, has) ==
    IF has = "TypeError" THEN [exc |-> "TypeError", val |-> parsed_response]
    ELSE IF has = "no" THEN [exc |-> NoExc, val |-> parsed_response]
    ELSE IF Tag(parsed_response) = "obj"
         THEN [exc |-> NoExc, val |-> DictGet(Content(parsed_response), FLASHCARDS)]
    ELSE [exc |-> "TypeError", val |-> parsed_response]   \* list or str indexed by a str
ExtractCandidates(parsed_response) == Lookup(parsed_response, InFlashcards(parsed_response))

\* lines 146-154: the loop over the candidates
ValidateAll(it) ==
    IF ~it.iterable THEN Raise("TypeError") ELSE Done(ValidateCards(it.items, <<>>))
ValidateCandidates(flashcards) ==
    IF flashcards.exc # NoExc THEN Raise(flashcards.exc)
    ELSE ValidateAll(PyIter(flashcards.val))

\* lines 136-154
ValidateParsed(parsed) ==
    IF ~parsed.ok THEN Raise("JSONDecodeError")
    ELSE ValidateCandidates(ExtractCandidates(parsed.val))

\* lines 107-154: the body of the try block; input is [isNone, text]
ParseBody(response_text) ==
    IF response_text.isNone THEN Raise("AttributeError")      \* None.strip()
    ELSE ValidateParsed(json_loads(WorkingText(response_text.text)))

\* the except clauses without the final `except Exception`
ParseHandlersJsonOnly(body) ==
    IF body.exc = NoExc THEN [raised |-> NoExc, caught |-> NoExc, cards |-> body.cards]
    ELSE IF body.exc = "JSONDecodeError"
         THEN [raised |-> NoExc, caught |-> body.exc, cards |-> <<>>]
    ELSE [raised |-> body.exc, caught |-> NoExc, cards |-> <<>>]

\* lines 156-162: the except clauses; result is [raised, caught, cards]
ParseHandlers(body) ==
    IF body.exc = NoExc THEN [raised |-> NoExc, caught |-> NoExc, cards |-> body.cards]
    ELSE IF body.exc = "JSONDecodeError"
         THEN [raised |-> NoExc, caught |-> body.exc, cards |-> <<>>]
    ELSE [raised |-> NoExc, caught |-> body.exc, cards |-> <<>>]           \* except Exception

\* lines 104-162
_parse_flashcard_response(response_text) == ParseHandlers(ParseBody(response_text))

(***************************************************************************)
(* GroqClient._get_sample_flashcards and the tail of generate_flashcards.  *)
(***************************************************************************)
\* lines 164-179
_get_sample_flashcards(topic) ==
    << [question |-> <<"What is the main concept of ">> \o topic \o <<"?">>,
        answer |-> <<"This is a sample answer about ">> \o topic
                   \o <<". The actual content would depend on the specific topic being studied.">>],
       [question |-> <<"Why is ">> \o topic \o <<" important?">>,
        answer |-> topic
                   \o <<" is important because it helps us understand key concepts and principles in this subject area.">>],
       [question |-> <<"How can you apply knowledge of ">> \o topic \o <<"?">>,
        answer |-> <<"Knowledge of ">> \o topic
                   \o <<" can be applied in various practical situations and helps build understanding of related concepts.">>] >>

\* lines 77-102: the prompt names the topic and the number of cards
_create_flashcard_prompt(topic, num_flashcards) ==
    [topic |-> topic, num_flashcards |-> num_flashcards]

\* the disabled client cutting the sample cards to the number asked for
GenerateDisabledFirstN(topic, num_flashcards) ==
    [raised |-> NoExc,
     cards |-> SubSeq(_get_sample_flashcards(topic), 1,
                      IF num_flashcards < 3 THEN num_flashcards ELSE 3)]

\* lines 35-37: the client is disabled
GenerateDisabled(topic, num_flashcards) ==
    [raised |-> NoExc, cards |-> _get_sample_flashcards(topic)]

\* line 70 without the fallback
ReturnAsIs(flashcards, topic) == flashcards

\* line 70: return flashcards if flashcards else self._get_sample_flashcards(topic)
ReturnOrSample(flashcards, topic) ==
    IF flashcards # <<>> THEN flashcards ELSE _get_sample_flashcards(topic)

\* generate_flashcards letting the exception through
GenerateHandlerReraise(body, topic) ==
    [raised |-> body.exc, cards |-> body.cards]

\* generate_flashcards answering a failure with the empty list
GenerateHandlerEmpty(body, topic) ==
    [raised |-> NoExc, cards |-> body.cards]

\* lines 72-75: except Exception
GenerateHandler(body, topic) ==
    IF body.exc = NoExc THEN [raised |-> NoExc, cards |-> body.cards]
    ELSE [raised |-> NoExc, cards |-> _get_sample_flashcards(topic)]

(***************************************************************************)
(* What the capability can answer.  A response is described by the shape   *)
(* of its payload, the candidate entries in it and the text wrapped around *)
(* it; ResponseText writes it out as the text the capability returns.      *)
(***************************************************************************)
Str(s) == <<"str", s>>
Num(d) == <<"num", <<d>> >>
Null == <<"null", <<>>>>
Arr(items) == <<"arr", items>>
Obj(members) == <<"obj", members>>

\* JSON text of a value
RECURSIVE Render(_)
Render(v) ==
    CASE Tag(v) = "str" -> <<DQ>> \o Content(v) \o <<DQ>>
      [] Tag(v) = "num" -> Content(v)
      [] Tag(v) = "null" -> <<"null">>
      [] Tag(v) = "true" -> <<"true">>
      [] Tag(v) = "arr" ->
            <<LBRACK>>
            \o JoinWith([i \in 1..Len(Content(v)) |-> Render(Content(v)[i])], <<COMMA, SP>>)
            \o <<RBRACK>>
      [] Tag(v) = "obj" ->
            <<LBRACE>>
            \o JoinWith([i \in 1..Len(Content(v)) |->
                            <<DQ>> \o Content(v)[i][1] \o <<DQ, COLON, SP>>
                            \o Render(Content(v)[i][2])], <<COMMA, SP>>)
            \o <<RBRACE>>

EntryNames == {"good", "pad", "noanswer", "blank", "fence", "text", "numval"}

Entry(name) ==
    CASE name = "good" ->
            Obj(<< <<QUESTION, Str(<<"Q1">>)>>, <<ANSWER, Str(<<"A1">>)>> >>)
      [] name = "pad" ->
            Obj(<< <<QUESTION, Str(<<SP, "Q2", SP>>)>>, <<ANSWER, Str(<<"A2", SP>>)>> >>)
      [] name = "noanswer" ->
            Obj(<< <<QUESTION, Str(<<"Q4">>)>> >>)
      [] name = "blank" ->
            Obj(<< <<QUESTION, Str(<<>>)>>, <<ANSWER, Str(<<SP>>)>> >>)
      [] name = "fence" ->
            Obj(<< <<QUESTION, Str(<<"What is ", FENCE, "?">>)>>, <<ANSWER, Str(<<"A5">>)>> >>)
      [] name = "text" -> Str(<<"x">>)
      [] name = "numval" ->
            Obj(<< <<QUESTION, Num("1")>>, <<<<"hint">>, Str(<<"x">>)>>, <<ANSWER, Null>> >>)

EntryLists == UNION {[1..n -> EntryNames] : n \in 0..MaxCards}
BareLists == UNION {[1..n -> EntryNames] : n \in 0..MaxBare}

OddShapes == {"cards", "fc_num", "fc_null", "fc_str", "fc_obj", "num", "null", "str_fc",
              "arr_fc", "truncated", "words", "empty", "reversed"}

Payload(shape, entries) ==
    LET items == Arr([i \in 1..Len(entries) |-> Entry(entries[i])])
    IN  CASE shape = "flash" -> Render(Obj(<< <<FLASHCARDS, items>> >>))
          [] shape = "bare" -> Render(items)
          [] shape = "cards" -> Render(Obj(<< <<<<"cards">>, Arr(<<Entry("good")>>)>> >>))
          [] shape = "fc_num" -> Render(Obj(<< <<FLASHCARDS, Num("1")>> >>))
          [] shape = "fc_null" -> Render(Obj(<< <<FLASHCARDS, Null>> >>))
          [] shape = "fc_str" -> Render(Obj(<< <<FLASHCARDS, Str(<<"x">>)>> >>))
          [] shape = "fc_obj" -> Render(Obj(<< <<FLASHCARDS, Entry("good")>> >>))
          [] shape = "num" -> <<"1">>
          [] shape = "null" -> <<"null">>
          [] shape = "str_fc" -> Render(Str(FLASHCARDS))
          [] shape = "arr_fc" -> Render(Arr(<<Str(FLASHCARDS)>>))
          [] shape = "truncated" -> <<LBRACE, DQ, "flashcards", DQ, COLON, SP, LBRACK>>
          [] shape = "words" -> <<"not", SP, "json">>
          [] shape = "empty" -> <<>>
          [] shape = "reversed" -> <<RBRACE, SP, LBRACE>>

Wrappers == {"none", "jsonfence", "jsonfence_prose", "jsonfence_open",
             "fence_tag", "fence", "prose", "trailing"}

Wrap(wrap, payload) ==
    CASE wrap = "none" -> payload
      [] wrap = "jsonfence" -> <<FENCE, "json", NL>> \o payload \o <<NL, FENCE>>
      [] wrap = "jsonfence_prose" ->
            <<SP, "Here", COLON, NL, FENCE, "json", NL>> \o payload
            \o <<NL, FENCE, NL, "Enjoy", NL>>
      [] wrap = "jsonfence_open" -> <<FENCE, "json", NL>> \o payload
      [] wrap = "fence_tag" -> <<FENCE, "javascript", NL>> \o payload \o <<NL, FENCE>>
      [] wrap = "fence" -> <<FENCE, NL>> \o payload \o <<NL, FENCE>>
      [] wrap = "prose" -> <<"Here", COLON, NL>> \o payload \o <<NL, "Enjoy">>
      [] wrap = "trailing" -> payload \o <<NL, "Enjoy">>

Sents ==
    [shape : {"flash"}, entries : EntryLists, wrap : Wrappers]
    \cup [shape : {"bare"}, entries : BareLists, wrap : Wrappers]
    \cup [shape : OddShapes, entries : {<<>>}, wrap : Wrappers]

ResponseText(sent) == Wrap(sent.wrap, Payload(sent.shape, sent.entries))

NoSent == [shape |-> "-", entries |-> <<>>, wrap |-> "-"]
NoText == [isNone |-> TRUE, text |-> <<>>]
TextOf(t) == [isNone |-> FALSE, text |-> t]

Topics == {<<"Photosynthesis">>, <<"Cell", SP, "Biology">>}
Counts == 1..MaxCount

(***************************************************************************)
(* State.  The one global client (line 182) and, for every caller p, the   *)
(* frame of its current call.                                              *)
(***************************************************************************)
VARIABLES
    enabled,    \* self.enabled
    model,      \* self.model
    client,     \* self.client: "Groq" or "None"
    pc,         \* "idle", "calling" (blocked in completions.create), "done", "parsed"
    topic,      \* topic argument of the call
    num,        \* num_flashcards argument of the call
    request,    \* the request in flight: model and prompt
    sent,       \* what the capability answered: "raise", "none", or a response
    response,   \* the text under extraction
    parsed,     \* outcome of _parse_flashcard_response
    result,     \* outcome of generate_flashcards
    calls,      \* invocations of the capability made by the call
    db,         \* firebase_config.db: TRUE for a Firestore client, FALSE for None
    users,      \* the documents of the users collection
    reg,        \* for every caller, the frame of its create_user call
    sets,       \* the flashcard_sets documents, in the order they were added
    web         \* for every caller, the frame of its POST to /create

groqVars == <<enabled, model, client, pc, topic, num, request, sent, response, parsed,
              result, calls>>
appVars == <<db, users, reg, sets, web>>
vars == <<enabled, model, client, pc, topic, num, request, sent, response, parsed,
          result, calls, db, users, reg, sets, web>>

GROQ_MODEL == "meta-llama/llama-4-scout-17b-16e-instruct"

NoRequest == [model |-> "-", prompt |-> _create_flashcard_prompt(<<>>, 0)]
NoParsed == [raised |-> "-", caught |-> "-", cards |-> <<>>]
NoResult == [raised |-> "-", cards |-> <<>>]
NoAnswer == [kind |-> "-", what |-> NoSent]

NoUser == [user_id |-> 0, email |-> "-"]
NoRegistration == [pc |-> "idle", email |-> "-", found |-> FALSE, returned |-> NoUser]
NoPost == [pc |-> "idle", raw |-> <<>>, topic |-> <<>>, generated |-> 0, flash |-> "-"]

\* groq_client.py lines 13-22 and 182: the client is enabled exactly when it has an
\* API key; firebase_config.py lines 17-61: db is a client or None; the collections
\* are taken empty
Init ==
    /\ enabled \in BOOLEAN
    /\ model = GROQ_MODEL
    /\ client = IF enabled THEN "Groq" ELSE "None"
    /\ pc = [p \in Procs |-> "idle"]
    /\ topic = [p \in Procs |-> <<>>]
    /\ num = [p \in Procs |-> 0]
    /\ request = [p \in Procs |-> NoRequest]
    /\ sent = [p \in Procs |-> NoAnswer]
    /\ response = [p \in Procs |-> NoText]
    /\ parsed = [p \in Procs |-> NoParsed]
    /\ result = [p \in Procs |-> NoResult]
    /\ calls = [p \in Procs |-> 0]
    /\ db \in BOOLEAN
    /\ users = {}
    /\ reg = [p \in Procs |-> NoRegistration]
    /\ sets = <<>>
    /\ web = [p \in Procs |-> NoPost]

Answers ==
    {[kind |-> "raise", what |-> NoSent], [kind |-> "none", what |-> NoSent]}
    \cup [kind : {"text"}, what : Sents]

\* lines 64-70: the try block once completions.create has answered;
\* flashcards is the outcome of _parse_flashcard_response
GenerateBody(kind, flashcards, t) ==
    IF kind = "raise" THEN [exc |-> "APIError", cards |-> <<>>]
    ELSE IF kind = "none" THEN [exc |-> "AttributeError", cards |-> <<>>]   \* None.strip()
    ELSE IF flashcards.raised # NoExc THEN [exc |-> flashcards.raised, cards |-> <<>>]
    ELSE [exc |-> NoExc, cards |-> ReturnOrSample(flashcards.cards, t)]

\* line 64: response_text = completion.choices[0].message.content.strip()
StrippedContent(answer) ==
    IF answer.kind = "text" THEN TextOf(strip(ResponseText(answer.what))) ELSE NoText

\* lines 24-75 as one function of the client's flag, the arguments and the answer
generate_flashcards(is_enabled, t, n, answer) ==
    IF ~is_enabled THEN GenerateDisabled(t, n)
    ELSE GenerateHandler(
             GenerateBody(answer.kind,
                          IF answer.kind = "text"
                          THEN _parse_flashcard_response(StrippedContent(answer))
                          ELSE NoParsed,
                          t),
             t)

\* generate_flashcards keeping the topic on the shared client instead of in its frame
GenerateShared(p, t, n) ==
    /\ pc[p] = "idle"
    /\ topic' = [q \in Procs |-> t]
    /\ num' = [num EXCEPT ![p] = n]
    /\ IF ~enabled
       THEN /\ result' = [result EXCEPT ![p] = GenerateDisabled(t, n)]
            /\ pc' = [pc EXCEPT ![p] = "done"]
            /\ UNCHANGED <<request, calls>>
       ELSE /\ request' = [request EXCEPT
                              ![p] = [model |-> model,
                                      prompt |-> _create_flashcard_prompt(t, n)]]
            /\ calls' = [calls EXCEPT ![p] = @ + 1]
            /\ pc' = [pc EXCEPT ![p] = "calling"]
            /\ UNCHANGED result
    /\ UNCHANGED <<enabled, model, client, sent, response, parsed>>
    /\ UNCHANGED appVars

\* lines 24-61: generate_flashcards up to the call of the capability
Generate(p, t, n) ==
    /\ pc[p] = "idle"
    /\ topic' = [topic EXCEPT ![p] = t]
    /\ num' = [num EXCEPT ![p] = n]
    /\ IF ~enabled
       THEN /\ result' = [result EXCEPT ![p] = GenerateDisabled(t, n)]
            /\ pc' = [pc EXCEPT ![p] = "done"]
            /\ UNCHANGED <<request, calls>>
       ELSE /\ request' = [request EXCEPT
                              ![p] = [model |-> model,
                                      prompt |-> _create_flashcard_prompt(t, n)]]
            /\ calls' = [calls EXCEPT ![p] = @ + 1]
            /\ pc' = [pc EXCEPT ![p] = "calling"]
            /\ UNCHANGED result
    /\ UNCHANGED <<enabled, model, client, sent, response, parsed>>
    /\ UNCHANGED appVars

\* a failed call being tried a second time instead of falling back
AnswerRetry(p) ==
    /\ pc[p] = "calling"
    /\ calls[p] < 2
    /\ sent' = [sent EXCEPT ![p] = [kind |-> "raise", what |-> NoSent]]
    /\ calls' = [calls EXCEPT ![p] = @ + 1]
    /\ UNCHANGED <<enabled, model, client, pc, topic, num, request, response, parsed, result>>
    /\ UNCHANGED appVars

\* lines 61-75: generate_flashcards from the answer of the capability to its return
AnswerWith(p, answer) ==
    /\ sent' = [sent EXCEPT ![p] = answer]
    /\ response' = [response EXCEPT ![p] = StrippedContent(answer)]
    /\ parsed' = [parsed EXCEPT
                     ![p] = IF answer.kind = "text"
                            THEN _parse_flashcard_response(response'[p])
                            ELSE NoParsed]
    /\ result' = [result EXCEPT
                     ![p] = GenerateHandler(
                               GenerateBody(answer.kind, parsed'[p], topic[p]),
                               topic[p])]
    /\ pc' = [pc EXCEPT ![p] = "done"]
    /\ UNCHANGED <<enabled, model, client, topic, num, request, calls>>
    /\ UNCHANGED appVars

\* lines 61-75: the capability answers and generate_flashcards returns
Answer(p) ==
    /\ pc[p] = "calling"
    /\ \E answer \in Answers : AnswerWith(p, answer)

\* lines 104-162: _parse_flashcard_response called on its own
Parse(p) ==
    /\ pc[p] = "idle"
    /\ \E answer \in Answers :
       /\ answer.kind \in {"none", "text"}
       /\ sent' = [sent EXCEPT ![p] = answer]
       /\ response' = [response EXCEPT
                          ![p] = IF answer.kind = "text"
                                 THEN TextOf(ResponseText(answer.what))
                                 ELSE NoText]
       /\ parsed' = [parsed EXCEPT ![p] = _parse_flashcard_response(response'[p])]
    /\ pc' = [pc EXCEPT ![p] = "parsed"]
    /\ UNCHANGED <<enabled, model, client, topic, num, request, result, calls>>
    /\ UNCHANGED appVars

\* the caller takes the returned value; the frame of the call is gone
Return(p) ==
    /\ pc[p] \in {"done", "parsed"}
    /\ pc' = [pc EXCEPT ![p] = "idle"]
    /\ topic' = [topic EXCEPT ![p] = <<>>]
    /\ num' = [num EXCEPT ![p] = 0]
    /\ request' = [request EXCEPT ![p] = NoRequest]
    /\ sent' = [sent EXCEPT ![p] = NoAnswer]
    /\ response' = [response EXCEPT ![p] = NoText]
    /\ parsed' = [parsed EXCEPT ![p] = NoParsed]
    /\ result' = [result EXCEPT ![p] = NoResult]
    /\ calls' = [calls EXCEPT ![p] = 0]
    /\ UNCHANGED <<enabled, model, client>>
    /\ UNCHANGED appVars

Next ==
    \/ \E p \in Callers, t \in Topics, n \in Counts : Generate(p, t, n)
    \/ \E p \in Callers : Answer(p)
    \/ \E p \in Callers : Parse(p)
    \/ \E p \in Callers : Return(p)

\* no step of generate_flashcards or of _parse_flashcard_response reads or writes
\* db: the calls on the client are followed with Firestore available
InitClient == Init /\ db

Spec == InitClient /\ [][Next]_vars

(***************************************************************************)
(* Concurrent invocations.  Every request thread calls generate_flashcards *)
(* on the one global client of line 182; the calls interleave at the call  *)
(* of the capability.  The answers are a small selection of the ones above.*)
(***************************************************************************)
ConcurrentAnswers ==
    {[kind |-> "raise", what |-> NoSent], [kind |-> "none", what |-> NoSent]}
    \cup [kind : {"text"},
          what : [shape : {"flash"}, entries : {<<"good">>, <<"pad", "good">>},
                  wrap : {"none", "jsonfence"}]
                 \cup [shape : {"words"}, entries : {<<>>}, wrap : {"none"}]]

\* lines 61-75, for a call that runs while others do
ConcurrentAnswer(p) ==
    /\ pc[p] = "calling"
    /\ \E answer \in ConcurrentAnswers : AnswerWith(p, answer)

NextConcurrent ==
    \/ \E p \in Procs, t \in Topics, n \in Counts : Generate(p, t, n)
    \/ \E p \in Procs : ConcurrentAnswer(p)
    \/ \E p \in Procs : Return(p)

SpecConcurrent == InitClient /\ [][NextConcurrent]_vars

(***************************************************************************)
(* Registration: FirebaseConfig.create_user (firebase_config.py lines      *)
(* 96-138), called by the register handler (app.py lines 68-81) of every   *)
(* request thread.  The query and the write are two calls of Firestore;    *)
(* other requests run between them.                                        *)
(***************************************************************************)
MaxUsers == 3
Emails == {"ann@example.org", "bob@example.org"}

\* line 107: users_ref.where('email', '==', email).limit(1).get()
ExistingUsers(email) == {d \in users : d.email = email}

\* line 114: user_id = f"user_{secrets.token_hex(16)}", an identifier no document has
NewUserId == Cardinality(users) + 1

\* what create_user returns: the user record, or None
ReturnedUser(p, found, user) ==
    [reg EXCEPT ![p] = [pc |-> "done", email |-> @.email, found |-> found, returned |-> user]]

\* lines 96-112: create_user up to the answer of the query
CreateUserQuery(p, email) ==
    /\ reg[p].pc = "idle"
    /\ IF ~db
       THEN reg' = [reg EXCEPT ![p] = [pc |-> "done", email |-> email, found |-> FALSE,
                                       returned |-> NoUser]]
       ELSE \/ reg' = [reg EXCEPT                          \* the query raises: lines 136-138
                          ![p] = [pc |-> "done", email |-> email,
                                  found |-> ExistingUsers(email) # {}, returned |-> NoUser]]
            \/ reg' = [reg EXCEPT
                          ![p] = IF ExistingUsers(email) # {}
                                 THEN [pc |-> "done", email |-> email, found |-> TRUE,
                                       returned |-> NoUser]
                                 ELSE [pc |-> "queried", email |-> email, found |-> FALSE,
                                       returned |-> NoUser]]
    /\ UNCHANGED <<db, users, sets, web>>
    /\ UNCHANGED groqVars

\* lines 113-134: the document is written and the user record returned, or the
\* write raises and None is returned (lines 136-138)
CreateUserSet(p) ==
    /\ reg[p].pc = "queried"
    /\ \/ /\ Cardinality(users) < MaxUsers
          /\ users' = users \cup {[user_id |-> NewUserId, email |-> reg[p].email]}
          /\ reg' = ReturnedUser(p, FALSE, [user_id |-> NewUserId, email |-> reg[p].email])
       \/ /\ reg' = ReturnedUser(p, FALSE, NoUser)
          /\ UNCHANGED users
    /\ UNCHANGED <<db, sets, web>>
    /\ UNCHANGED groqVars

\* app.py lines 75-81: the handler takes the returned value
CreateUserReturn(p) ==
    /\ reg[p].pc = "done"
    /\ reg' = [reg EXCEPT ![p] = NoRegistration]
    /\ UNCHANGED <<db, users, sets, web>>
    /\ UNCHANGED groqVars

NextUsers ==
    \/ \E p \in Procs, email \in Emails : CreateUserQuery(p, email)
    \/ \E p \in Procs : CreateUserSet(p)
    \/ \E p \in Procs : CreateUserReturn(p)

SpecUsers == Init /\ [][NextUsers]_vars

(***************************************************************************)
(* The create_flashcards handler (app.py lines 153-209) for a POST of a    *)
(* logged-in user: the topic is checked, generate_flashcards is called on  *)
(* the global client, and the set is added to the user's flashcard_sets.   *)
(***************************************************************************)
MAX_TOPIC_LENGTH == 200
FLASHCARDS_PER_SET == 8
MaxSets == 2

Chars(n) == [i \in 1..n |-> "a"]

\* request.form.get('topic', ''): nothing, blanks, one character, and texts around
\* the limit, one of them padded with blanks
FormTopics ==
    {<<>>, <<SP, SP>>, <<"a">>, <<SP>> \o Chars(MAX_TOPIC_LENGTH - 1) \o <<SP, NL>>,
     Chars(MAX_TOPIC_LENGTH), Chars(MAX_TOPIC_LENGTH + 1)}

Responded(p, raw, t, generated, flash) ==
    [web EXCEPT ![p] = [pc |-> "responded", raw |-> raw, topic |-> t,
                        generated |-> generated, flash |-> flash]]

\* lines 159-173: the topic is read and checked, and generate_flashcards is called
CheckTopic(p, raw, t) ==
    IF t = <<>>
    THEN web' = Responded(p, raw, t, 0, "Please enter a topic for your flashcards")
    ELSE IF Len(t) > MAX_TOPIC_LENGTH
    THEN web' = Responded(p, raw, t, 0, "Topic must be less than MAX_TOPIC_LENGTH characters")
    ELSE web' = [web EXCEPT ![p] = [pc |-> "generating", raw |-> raw, topic |-> t,
                                    generated |-> 1, flash |-> "-"]]

CreateFlashcardsPost(p, raw) ==
    /\ web[p].pc = "idle"
    /\ CheckTopic(p, raw, strip(raw))
    /\ UNCHANGED <<db, users, reg, sets>>
    /\ UNCHANGED groqVars

\* lines 187-192: flashcard_set_data, for the user of the session
FlashcardSetData(p, t, flashcards) ==
    [user |-> p, topic |-> t, flashcards |-> flashcards, card_count |-> Len(flashcards)]

\* lines 175-209: generate_flashcards has returned; the set is saved
SaveFlashcards(p, t, flashcards) ==
    IF flashcards.raised # NoExc
    THEN /\ web' = Responded(p, web[p].raw, t, 1,
                             "Failed to create flashcards. Please try again later.")
         /\ UNCHANGED sets
    ELSE IF flashcards.cards = <<>>
    THEN /\ web' = Responded(p, web[p].raw, t, 1,
                             "Failed to generate flashcards. Please try again.")
         /\ UNCHANGED sets
    ELSE IF ~db
    THEN /\ web' = Responded(p, web[p].raw, t, 1, "Firestore is not available.")
         /\ UNCHANGED sets
    ELSE \/ /\ Len(sets) < MaxSets
            /\ sets' = Append(sets, FlashcardSetData(p, t, flashcards.cards))
            /\ web' = Responded(p, web[p].raw, t, 1, "Successfully created")
         \/ /\ web' = Responded(p, web[p].raw, t, 1,          \* add raises: lines 198-201
                                "Failed to save flashcards to Firestore.")
            /\ UNCHANGED sets

CreateFlashcardsSave(p) ==
    /\ web[p].pc = "generating"
    /\ \E answer \in ConcurrentAnswers :
          SaveFlashcards(p, web[p].topic,
                         generate_flashcards(enabled, web[p].topic, FLASHCARDS_PER_SET, answer))
    /\ UNCHANGED <<db, users, reg>>
    /\ UNCHANGED groqVars

\* the response is sent; the frame of the request is gone
CreateFlashcardsRespond(p) ==
    /\ web[p].pc = "responded"
    /\ web' = [web EXCEPT ![p] = NoPost]
    /\ UNCHANGED <<db, users, reg, sets>>
    /\ UNCHANGED groqVars

NextCreate ==
    \/ \E p \in Callers, raw \in FormTopics : CreateFlashcardsPost(p, raw)
    \/ \E p \in Callers : CreateFlashcardsSave(p)
    \/ \E p \in Callers : CreateFlashcardsRespond(p)

SpecCreate == Init /\ [][NextCreate]_vars

(***************************************************************************)
(* Properties.                                                             *)
(***************************************************************************)
Returned(p) == pc[p] = "done"
Extracted(p) == pc[p] \in {"done", "parsed"} /\ sent[p].kind = "text"
NonBlank(card) == strip(card.question) # <<>> /\ strip(card.answer) # <<>>

\* C1: every call of generate_flashcards, whatever the capability does (disabled,
\* raising, answering no text, answering any text), returns without raising and
\* returns at least one card.
C1_NeverRaisesNeverEmpty ==
    \A p \in Procs :
        Returned(p) => result[p].raised = NoExc /\ Len(result[p].cards) >= 1

C1_Witness ==
    \E p \in Procs :
        /\ Returned(p)
        /\ sent[p].kind = "raise"
        /\ result[p].raised = NoExc
        /\ Len(result[p].cards) = 3

\* C2: when extraction yields at least one card, generate_flashcards returns at
\* most num_flashcards cards.
C2_AtMostCount ==
    \A p \in Procs :
        (Returned(p) /\ sent[p].kind = "text" /\ parsed[p].cards # <<>>)
            => Len(result[p].cards) <= num[p]

\* C3: every card returned by _parse_flashcard_response and by generate_flashcards
\* has a question and an answer that are non-empty after trimming.
C3_CardsNonBlank ==
    \A p \in Procs :
        /\ pc[p] \in {"done", "parsed"}
              => \A i \in 1..Len(parsed[p].cards) : NonBlank(parsed[p].cards[i])
        /\ Returned(p)
              => \A i \in 1..Len(result[p].cards) : NonBlank(result[p].cards[i])

\* the candidate entries that are records of exactly a question and an answer string
PairEntries == {"good", "pad", "blank", "fence"}
TrimmedPair(name) ==
    [question |-> strip(Content(DictGet(Content(Entry(name)), QUESTION))),
     answer |-> strip(Content(DictGet(Content(Entry(name)), ANSWER)))]

\* C4: a response that is exactly a JSON object with a flashcards array of
\* {question, answer} records is extracted to exactly those pairs, trimmed, in the
\* same order and number.
C4_RoundTrip ==
    \A p \in Procs :
        (/\ Extracted(p)
         /\ sent[p].what.shape = "flash"
         /\ sent[p].what.wrap = "none"
         /\ \A i \in 1..Len(sent[p].what.entries) : sent[p].what.entries[i] \in PairEntries)
            => parsed[p].cards
                  = [i \in 1..Len(sent[p].what.entries) |-> TrimmedPair(sent[p].what.entries[i])]

\* C5: a payload inside a JSON-labeled fence, with or without text around the
\* fence, is extracted to the same list as the payload alone.
C5_JsonFenceSameAsPayload ==
    \A p \in Procs :
        (/\ Extracted(p)
         /\ sent[p].what.shape = "flash"
         /\ sent[p].what.wrap \in {"jsonfence", "jsonfence_prose"})
            => parsed[p].cards
                  = _parse_flashcard_response(
                        TextOf(Payload(sent[p].what.shape, sent[p].what.entries))).cards

\* the substring from the first "{" to the last "}" inclusive (empty when there is none)
BraceSpan(t, first, last) ==
    IF first = -1 \/ last = -1 \/ last < first THEN <<>> ELSE slice(t, first, last + 1)
FirstToLastBrace(t) == BraceSpan(t, find(t, <<LBRACE>>, 0), rfind(t, <<RBRACE>>))

ItemsOfIter(it) == [known |-> it.iterable, items |-> it.items]
ItemsOfLookup(flashcards) ==
    IF flashcards.exc # NoExc THEN [known |-> FALSE, items |-> <<>>]
    ELSE ItemsOfIter(PyIter(flashcards.val))
ItemsOfParsed(r) ==
    IF ~r.ok THEN [known |-> FALSE, items |-> <<>>]
    ELSE ItemsOfLookup(ExtractCandidates(r.val))
CandidateItems(t) == ItemsOfParsed(json_loads(WorkingText(t)))

\* a key-value record with both keys, whatever else it holds
HasBoth(v) ==
    /\ Tag(v) = "obj"
    /\ {QUESTION, ANSWER} \subseteq {Content(v)[i][1] : i \in 1..Len(Content(v))}
CardsOf(kept) == [i \in 1..Len(kept) |-> MakeCard(kept[i])]
KeptCards(items) == CardsOf(SelectSeq(items, HasBoth))

KeepsExactly(p, kept) ==
    /\ parsed[p].cards = kept
    /\ (Returned(p) /\ kept # <<>>)
          => result[p].cards = kept /\ result[p].cards # _get_sample_flashcards(topic[p])
KeepsValid(p, c) == c.known => KeepsExactly(p, KeptCards(c.items))

\* C7: of a candidate list, extraction keeps exactly the records that hold both a
\* question and an answer key, in their order, and drops the rest; when one is kept,
\* generate_flashcards returns the kept list and not the sample cards.
C7_PartialValidity ==
    \A p \in Procs :
        Extracted(p) => KeepsValid(p, CandidateItems(response[p].text))

C7_Witness ==
    \E p \in Procs :
        /\ Returned(p)
        /\ sent[p].kind = "text"
        /\ sent[p].what.shape = "flash"
        /\ sent[p].what.entries = <<"noanswer", "numval">>
        /\ Len(parsed[p].cards) = 1
        /\ result[p].cards = parsed[p].cards

\* payloads that are no JSON at all, have no brace pair, or are cut short
MalformedShapes == {"words", "empty", "reversed", "truncated"}
NoValidEntry(what) ==
    /\ what.shape = "flash"
    /\ \A i \in 1..Len(what.entries) : ~HasBoth(Entry(what.entries[i]))
Malformed(p) ==
    \/ sent[p].what.shape \in MalformedShapes
    \/ NoValidEntry(sent[p].what)
    \/ ~json_loads(WorkingText(response[p].text)).ok

\* C8: a response that cannot be unwrapped to parseable JSON, or none of whose
\* candidates has both keys, is extracted to the empty list, and generate_flashcards
\* then returns exactly the sample cards of its topic.
C8_MalformedToFallback ==
    \A p \in Procs :
        (Extracted(p) /\ Malformed(p))
            => /\ parsed[p].raised = NoExc
               /\ parsed[p].cards = <<>>
               /\ Returned(p)
                     => /\ result[p].raised = NoExc
                        /\ result[p].cards = _get_sample_flashcards(topic[p])

C8_Witness ==
    \E p \in Procs :
        /\ Returned(p)
        /\ sent[p].kind = "text"
        /\ sent[p].what.shape = "words"
        /\ parsed[p].caught = "JSONDecodeError"
        /\ result[p].cards = _get_sample_flashcards(topic[p])

MentionsTopic(card, t) == contains(card.question, t) /\ contains(card.answer, t)

\* C9: with the capability disabled, generate_flashcards returns for every count
\* the same 3 cards, a function of the topic alone, each naming the topic in its
\* question and in its answer.
C9_DisabledFallback ==
    \A p \in Procs :
        (Returned(p) /\ ~enabled)
            => /\ result[p].raised = NoExc
               /\ Len(result[p].cards) = 3
               /\ result[p].cards = _get_sample_flashcards(topic[p])
               /\ \A n \in Counts : GenerateDisabled(topic[p], n).cards = result[p].cards
               /\ \A i \in 1..Len(result[p].cards) : MentionsTopic(result[p].cards[i], topic[p])
               /\ calls[p] = 0

C9_Witness ==
    \E p \in Procs :
        /\ Returned(p)
        /\ ~enabled
        /\ topic[p] = <<"Photosynthesis">>
        /\ num[p] = 1
        /\ Len(result[p].cards) = 3

\* C10: _parse_flashcard_response raises for no input (no text at all, any text,
\* JSON of any type, a flashcards value that is no list); whenever an exception
\* occurred inside it, it returns the empty list.
C10_ParseNeverRaises ==
    \A p \in Procs :
        pc[p] = "parsed"
            => /\ parsed[p].raised = NoExc
               /\ parsed[p].caught # NoExc => parsed[p].cards = <<>>

C10_Witness ==
    \E p \in Procs :
        /\ pc[p] = "parsed"
        /\ sent[p].kind = "none"
        /\ parsed[p].caught = "AttributeError"
        /\ parsed[p].cards = <<>>

\* the capability failed: the call raised, or its content is absent
FailedCall(p) == sent[p].kind \in {"raise", "none"}
\* the capability answered text that is empty, or empty once trimmed (line 64)
EmptyText(p) == sent[p].kind = "text" /\ strip(ResponseText(sent[p].what)) = <<>>
\* generate_flashcards run from line 64 on for a call that returned the empty text
ResultOfEmptyText(t) ==
    GenerateHandler(GenerateBody("text", _parse_flashcard_response(TextOf(<<>>)), t), t)

\* C11: with the client enabled, a call that raises, that answers no text or that
\* answers the empty text makes generate_flashcards return exactly the sample cards
\* of the topic, without raising; the result of a failed call is the result of a
\* call that answered the empty text.
C11_FailureSameAsEmpty ==
    \A p \in Procs :
        (Returned(p) /\ enabled /\ (FailedCall(p) \/ EmptyText(p)))
            => /\ result[p] = [raised |-> NoExc, cards |-> _get_sample_flashcards(topic[p])]
               /\ result[p] = ResultOfEmptyText(topic[p])

C11_Witness ==
    \E p \in Procs :
        /\ Returned(p)
        /\ enabled
        /\ sent[p].kind = "none"
        /\ result[p].cards = _get_sample_flashcards(topic[p])
        /\ result[p] = ResultOfEmptyText(topic[p])

\* C12: a response that is exactly a JSON array of {question, answer} records, with
\* no enclosing object and no flashcards key, is extracted to exactly those pairs,
\* trimmed, in the same order and number.
C12_BareArray ==
    \A p \in Procs :
        (/\ Extracted(p)
         /\ sent[p].what.shape = "bare"
         /\ sent[p].what.wrap = "none"
         /\ \A i \in 1..Len(sent[p].what.entries) : sent[p].what.entries[i] \in PairEntries)
            => parsed[p].cards
                  = [i \in 1..Len(sent[p].what.entries) |-> TrimmedPair(sent[p].what.entries[i])]

\* the substring between the first and the last fence marker, trimmed
BetweenFences(t) == strip(slice(t, find(t, Fence, 0) + Len(Fence), rfind(t, Fence)))
\* a block without its first line
AfterFirstLine(block) ==
    IF contains(block, <<NL>>)
    THEN strip(slice(block, find(block, <<NL>>, 0) + 1, Len(block)))
    ELSE <<>>
\* a block whose first line is dropped exactly when it does not begin with "{"
WithoutTagLine(block) ==
    IF startswith(block, LBRACE) THEN block ELSE AfterFirstLine(block)
UnlabeledFenced(p) == Extracted(p) /\ sent[p].what.wrap \in {"fence_tag", "fence"}

\* C13: a text with an unlabeled fenced block and no JSON-labeled fence is worked
\* on as the substring between the first and the last fence marker, its first line
\* dropped exactly when that line does not begin with "{"; a block with a
\* language-tag line and a block without one are both extracted to the same list
\* as the payload alone.
C13_GenericFence ==
    \A p \in Procs :
        UnlabeledFenced(p)
            => /\ StripCodeBlock(strip(response[p].text))
                     = WithoutTagLine(BetweenFences(strip(response[p].text)))
               /\ parsed[p].cards
                     = _parse_flashcard_response(
                           TextOf(Payload(sent[p].what.shape, sent[p].what.entries))).cards

\* in every state of a call: no invocation by a disabled client, never more than
\* one, and exactly one behind every result of an enabled client
InvokedAtMostOnce(p) ==
    /\ ~enabled => calls[p] = 0
    /\ calls[p] <= 1
    /\ (enabled /\ Returned(p)) => calls[p] = 1
\* a step that invokes the capability is the first of its call: it starts from
\* line 24, with the client enabled, and no answer or failure precedes it
InvokesOnlyOnEntry(p) ==
    calls'[p] > calls[p]
        => /\ enabled
           /\ pc[p] = "idle"
           /\ calls[p] = 0
           /\ sent[p] = NoAnswer
\* the result is produced by the step that follows the invocation, and by no other
ResultOnlyAfterAttempt(p) ==
    (enabled /\ ~Returned(p) /\ Returned(p)')
        => pc[p] = "calling" /\ calls[p] = 1 /\ calls'[p] = 1

\* C14: in every execution of generate_flashcards the capability is invoked zero
\* times by a disabled client and at most once by an enabled one; no failure of the
\* call or of extraction leads to a second invocation, and the result, the sample
\* cards included, is produced only after that one attempt.
C14_SingleInvocation ==
    /\ [](\A p \in Procs : InvokedAtMostOnce(p))
    /\ [][\A p \in Procs : InvokesOnlyOnEntry(p) /\ ResultOnlyAfterAttempt(p)]_vars

C14_Witness ==
    \E p \in Procs :
        /\ Returned(p)
        /\ enabled
        /\ sent[p].kind = "raise"
        /\ calls[p] = 1
        /\ result[p].cards = _get_sample_flashcards(topic[p])

\* everything one invocation holds
FrameOf(p) ==
    <<pc[p], topic[p], num[p], request[p], sent[p], response[p], parsed[p], result[p],
      calls[p]>>
\* the request and the result of an invocation as functions of its own arguments
\* and of the answer it received
OwnRequest(p) ==
    (enabled /\ pc[p] \in {"calling", "done"})
        => request[p] = [model |-> GROQ_MODEL,
                         prompt |-> _create_flashcard_prompt(topic[p], num[p])]
OwnResult(p) ==
    Returned(p) => result[p] = generate_flashcards(enabled, topic[p], num[p], sent[p])
\* a step leaves the shared client alone and touches the frame of one invocation only
ClientUnchanged == UNCHANGED <<enabled, model, client>>
OneFrameOnly ==
    \A p, q \in Procs :
        (p # q /\ FrameOf(p)' # FrameOf(p)) => FrameOf(q)' = FrameOf(q)

\* C15: generate_flashcards never changes the enabled flag, the model identifier or
\* the client handle of the shared client, so in every interleaving of concurrent
\* invocations each result is the one the invocation gives alone: a function of its
\* own topic, count and answer of the capability.
C15_Isolation ==
    /\ [](\A p \in Procs : OwnRequest(p) /\ OwnResult(p))
    /\ [][ClientUnchanged /\ OneFrameOnly]_vars

C15_Witness ==
    /\ enabled
    /\ Returned("p1") /\ Returned("p2")
    /\ topic["p1"] # topic["p2"]
    /\ sent["p1"].kind = "raise"
    /\ sent["p2"].kind = "text"
    /\ result["p1"].cards = _get_sample_flashcards(topic["p1"])
    /\ Len(result["p2"].cards) = 2

\* C16: whatever create_user calls have run, and however they interleaved, no two
\* documents of the users collection hold the same email; a call for an email that
\* has a document returns None.
C16_UniqueEmail ==
    /\ \A d1, d2 \in users : d1.email = d2.email => d1 = d2
    /\ \A p \in Procs : (reg[p].pc = "done" /\ reg[p].found) => reg[p].returned = NoUser

\* a topic that is non-empty once trimmed and shorter than MAX_TOPIC_LENGTH
Acceptable(raw) == strip(raw) # <<>> /\ Len(strip(raw)) < MAX_TOPIC_LENGTH
RejectionMessages ==
    {"Please enter a topic for your flashcards",
     "Topic must be less than MAX_TOPIC_LENGTH characters"}

\* C17: create_flashcards calls generate_flashcards and writes a set only for a
\* topic that is non-empty once trimmed and shorter than MAX_TOPIC_LENGTH; for a
\* rejected topic the generator is not called and nothing is written; every set
\* written has a card_count equal to the number of its flashcards.
C17_TopicGate ==
    /\ \A p \in Procs :
          /\ web[p].generated > 0 => Acceptable(web[p].raw)
          /\ web[p].flash \in RejectionMessages => web[p].generated = 0
    /\ \A i \in 1..Len(sets) :
          /\ Acceptable(sets[i].topic)
          /\ sets[i].card_count = Len(sets[i].flashcards)

====
